---------------------------- MODULE Spec2Model ----------------------------
(***************************************************************************)
(* A model of the glm-color crate (linear RGB, HSV, sRGB and YCbCr colour  *)
(* values, their conversions and the procedural colour generators).        *)
(*                                                                         *)
(* Every channel of the crate is an `f32`.  The model keeps that width: a  *)
(* number is the IEEE-754 binary32 bit pattern of the value, held as a     *)
(* sign-magnitude integer (sign * low 31 bits), and +, -, *, / round to    *)
(* nearest, ties to even, exactly as the hardware does.  With this         *)
(* encoding the order of the integers is the order of the floats.  The     *)
(* only value the encoding merges is -0.0 with +0.0.                       *)
(***************************************************************************)
EXTENDS Integers, Sequences, FiniteSets, TLC

(***************************************************************************)
(* binary32                                                                *)
(***************************************************************************)

\* The bit patterns of +infinity and of the (one, canonical) NaN.
Inf == 2139095040
NaN == 2143289344

TwoP23 == 8388608
TwoP24 == 16777216

IsNaN(x) == x = NaN \/ x = -NaN
IsInf(x) == x = Inf \/ x = -Inf

Sgn(x) == IF x < 0 THEN -1 ELSE 1
Mag(x) == IF x < 0 THEN -x ELSE x

\* Number of significant bits of m, for 1 <= m < 2^31.
BitLen(m) ==
  IF m >= 1073741824 THEN 31
  ELSE CHOOSE k \in 1..30 : 2^(k-1) <= m /\ m < 2^k

\* Significand and exponent of a finite magnitude: value = Man * 2^Exp.
Man(b) == IF b \div TwoP23 = 0 THEN b % TwoP23 ELSE (b % TwoP23) + TwoP23
Exp(b) == IF b \div TwoP23 = 0 THEN -149 ELSE (b \div TwoP23) - 150

\* The magnitude q * 2^e as a bit pattern, for q <= 2^24 and e >= -149,
\* with q >= 2^23 unless e = -149 (a subnormal).
Pack(q, e) ==
  LET q1 == IF q = TwoP24 THEN TwoP23 ELSE q
      e1 == IF q = TwoP24 THEN e + 1 ELSE e
  IN IF e1 + 149 >= 254 /\ q1 >= TwoP23 THEN Inf
     ELSE q1 + (e1 + 149) * TwoP23

\* m * 2^e rounded to a significand of exponent e1, to nearest, ties to
\* even; st says that a fraction below the last bit of m was dropped.
RoundTo(m, e, st, e1) ==
  IF e1 <= e THEN Pack(m * 2^(e - e1), e1)
  ELSE IF e1 - e >= 32 THEN 0
  ELSE LET half == 2^(e1 - e - 1)
           q == IF e1 - e = 31 THEN 0 ELSE m \div (2 * half)
           r == IF e1 - e = 31 THEN m ELSE m % (2 * half)
       IN Pack(IF r > half \/ (r = half /\ (st \/ q % 2 = 1)) THEN q + 1 ELSE q,
               e1)

\* Round (m + s) * 2^e to the nearest binary32 magnitude, ties to even,
\* where 0 <= m < 2^31 and s is a fraction in (0,1) iff st holds.
RoundPack(m, e, st) ==
  IF m = 0 THEN 0
  ELSE RoundTo(m, e, st,
               IF e + BitLen(m) - 24 < -149 THEN -149 ELSE e + BitLen(m) - 24)

\* An integer |n| < 2^24 as a float (exact).
FromInt(n) == Sgn(n) * RoundPack(Mag(n), 0, FALSE)

FNeg(x) == IF IsNaN(x) THEN NaN ELSE -x

\* Comparisons; every comparison with NaN is false.
FLt(a, b) == ~IsNaN(a) /\ ~IsNaN(b) /\ a < b
FLe(a, b) == ~IsNaN(a) /\ ~IsNaN(b) /\ a <= b
FEq(a, b) == ~IsNaN(a) /\ ~IsNaN(b) /\ a = b

\* A + B / 2^d (or A - B / 2^d), where d is the difference of the
\* exponents, rounded.
AddAligned(A, B, d, e, subtract) ==
  LET Bs == IF d >= 31 THEN 0 ELSE B \div 2^d
      st == IF d >= 31 THEN B # 0 ELSE B % 2^d # 0
  IN RoundPack(IF subtract THEN A - Bs - (IF st THEN 1 ELSE 0) ELSE A + Bs,
               e, st)

\* |a| + |b| and |a| - |b| (|a| >= |b|) on magnitudes, correctly rounded.
AddMag(a, b, subtract) ==
  AddAligned(Man(a) * 64, Man(b) * 64, Exp(a) - Exp(b), Exp(a) - 6, subtract)

FAdd(a, b) ==
  IF IsNaN(a) \/ IsNaN(b) THEN NaN
  ELSE IF IsInf(a) THEN (IF IsInf(b) /\ a # b THEN NaN ELSE a)
  ELSE IF IsInf(b) THEN b
  ELSE IF a = 0 THEN b
  ELSE IF b = 0 THEN a
  ELSE LET big == IF Mag(a) >= Mag(b) THEN a ELSE b
           sml == IF Mag(a) >= Mag(b) THEN b ELSE a
       IN Sgn(big) * AddMag(Mag(big), Mag(sml), Sgn(a) # Sgn(b))

FSub(a, b) == FAdd(a, FNeg(b))

\* The shift that brings a non-zero significand up to 24 bits.
NormShift(m) == 24 - BitLen(m)

\* The 48-bit product of two 24-bit significands, from their 12-bit halves,
\* rounded.
MulNorm(ma, mb, e) ==
  LET ah == ma \div 4096
      al == ma % 4096
      bh == mb \div 4096
      bl == mb % 4096
      mid == ah * bl + al * bh
      u == (mid % 4096) * 4096 + al * bl
      H == ah * bh + mid \div 4096 + u \div TwoP24
      rest == u % TwoP24
  IN RoundPack(H * 64 + rest \div 262144, e, rest % 262144 # 0)

MulMag(a, b) ==
  MulNorm(Man(a) * 2^NormShift(Man(a)), Man(b) * 2^NormShift(Man(b)),
          (Exp(a) - NormShift(Man(a))) + (Exp(b) - NormShift(Man(b))) + 18)

FMul(a, b) ==
  IF IsNaN(a) \/ IsNaN(b) THEN NaN
  ELSE IF IsInf(a) \/ IsInf(b)
       THEN (IF a = 0 \/ b = 0 THEN NaN ELSE Sgn(a) * Sgn(b) * Inf)
  ELSE IF a = 0 \/ b = 0 THEN 0
  ELSE Sgn(a) * Sgn(b) * MulMag(Mag(a), Mag(b))

\* Long division of two 24-bit significands, six bits at a time: four steps
\* of six bits and a last one of five, then the rounding.
RECURSIVE DivSteps(_, _, _, _, _)
DivSteps(q, r, mb, steps, e) ==
  IF steps = 0
  THEN RoundPack(q * 32 + (r * 32) \div mb, e, (r * 32) % mb # 0)
  ELSE DivSteps(q * 64 + (r * 64) \div mb, (r * 64) % mb, mb, steps - 1, e)

DivNorm(ma, mb, e) == DivSteps(ma \div mb, ma % mb, mb, 4, e)

DivMag(a, b) ==
  DivNorm(Man(a) * 2^NormShift(Man(a)), Man(b) * 2^NormShift(Man(b)),
          (Exp(a) - NormShift(Man(a))) - (Exp(b) - NormShift(Man(b))) - 29)

FDiv(a, b) ==
  IF IsNaN(a) \/ IsNaN(b) THEN NaN
  ELSE IF IsInf(a) THEN (IF IsInf(b) THEN NaN ELSE Sgn(a) * Sgn(b) * Inf)
  ELSE IF IsInf(b) THEN 0
  ELSE IF b = 0 THEN (IF a = 0 THEN NaN ELSE Sgn(a) * Inf)
  ELSE IF a = 0 THEN 0
  ELSE Sgn(a) * Sgn(b) * DivMag(Mag(a), Mag(b))

\* The largest integer not above x, from the significand m and the number s
\* of its bits that are behind the point.
FloorParts(x, m, s) ==
  LET ip == IF s >= 31 THEN 0 ELSE m \div 2^s
      fr == IF s >= 31 THEN m # 0 ELSE m % 2^s # 0
  IN FromInt(IF x >= 0 THEN ip ELSE IF fr THEN -(ip + 1) ELSE -ip)

\* The largest integer not above x.
FFloor(x) ==
  IF IsNaN(x) \/ IsInf(x) \/ Mag(x) >= 1258291200 THEN x
  ELSE FloorParts(x, Man(Mag(x)), -Exp(Mag(x)))

RECURSIVE RemLoop(_, _, _)
RemLoop(r, d, mb) ==
  IF d = 0 THEN r
  ELSE IF d < 7 THEN RemLoop((r * 2^d) % mb, 0, mb)
  ELSE RemLoop((r * 128) % mb, d - 7, mb)

\* Rust's `%` on f32: the remainder of the truncated division (exact).
FRem(a, b) ==
  IF IsNaN(a) \/ IsNaN(b) \/ IsInf(a) \/ b = 0 THEN NaN
  ELSE IF IsInf(b) \/ Mag(a) < Mag(b) THEN a
  ELSE Sgn(a) * RoundPack(RemLoop(Man(Mag(a)) % Man(Mag(b)),
                                  Exp(Mag(a)) - Exp(Mag(b)), Man(Mag(b))),
                          Exp(Mag(b)), FALSE)

\* IEEE minNum / maxNum, as f32::min and f32::max: a NaN operand is ignored.
FMin(a, b) == IF IsNaN(a) THEN b ELSE IF IsNaN(b) THEN a ELSE IF a < b THEN a ELSE b
FMax(a, b) == IF IsNaN(a) THEN b ELSE IF IsNaN(b) THEN a ELSE IF a > b THEN a ELSE b
FAbs(x) == IF IsNaN(x) THEN NaN ELSE Mag(x)

\* The f32 nearest to the decimal literal num/den (|num|, den < 2^24).
Dec(num, den) == FDiv(FromInt(num), FromInt(den))

Zero == FromInt(0)
One == FromInt(1)
Half == Dec(1, 2)

(***************************************************************************)
(* glm: the numeric helpers the crate calls                                *)
(***************************************************************************)

\* clamp(x, min, max) = min(max(x, min), max)
Clamp(x, lo, hi) == FMin(FMax(x, lo), hi)

\* pi() and tau() as f32
PI == 1078530011
TAU == 1086918619

\* radians(x) = x * (pi / 180), degrees(x) = x * (180 / pi)
Radians(x) == FMul(x, FDiv(PI, FromInt(180)))
Degrees(x) == FMul(x, FDiv(FromInt(180), PI))

\* fmod(x, y) = x - y * floor(x / y)  (GLSL's mod)
Fmod(x, y) == FSub(x, FMul(y, FFloor(FDiv(x, y))))

\* is_approx_eq(x, y): |x - y| <= the machine epsilon of f32, 2^-23
EPSILON == 872415232
IsApproxEq(x, y) == FLe(FAbs(FSub(x, y)), EPSILON)


(***************************************************************************)
(* Rgb                                                                     *)
(***************************************************************************)

\* Vectors and column-major matrices of the glm library, as sequences.
Vec3Add(a, b) == <<FAdd(a[1], b[1]), FAdd(a[2], b[2]), FAdd(a[3], b[3])>>

Vec3Scale(a, x) == <<FMul(a[1], x), FMul(a[2], x), FMul(a[3], x)>>

Dot(a, b) == FAdd(FAdd(FMul(a[1], b[1]), FMul(a[2], b[2])), FMul(a[3], b[3]))

\* m.mul_v(v): the sum of the columns of m scaled by the components of v.
Mat3MulV(m, v) ==
  Vec3Add(Vec3Add(Vec3Scale(m[1], v[1]), Vec3Scale(m[2], v[2])),
          Vec3Scale(m[3], v[3]))

RgbOf(r, g, b) == [r |-> r, g |-> g, b |-> b]

Rgb_as_vec3(c) == <<c.r, c.g, c.b>>

ONE_OVER_256 == Dec(1, 255)

Rgb_new_unclamped(red, green, blue) == RgbOf(red, green, blue)
Rgb_new(red, green, blue) ==
  RgbOf(Clamp(red, Zero, One), Clamp(green, Zero, One), Clamp(blue, Zero, One))

\* Rgb::new(v.x, v.y, v.z)
Rgb_of_vec3(v) == Rgb_new(v[1], v[2], v[3])

Rgb_with_red(c, r) == RgbOf(Clamp(r, Zero, One), c.g, c.b)
Rgb_with_green(c, g) == RgbOf(c.r, Clamp(g, Zero, One), c.b)
Rgb_with_blue(c, b) == RgbOf(c.r, c.g, Clamp(b, Zero, One))

\* A set_red that makes the color anew from the red value alone.
Rgb_set_red_alone(c, r) == RgbOf(Clamp(r, Zero, One), Zero, Zero)

\* The setters assign the clamped argument to the one field.
Rgb_set_red(c, r) == [c EXCEPT !.r = Clamp(r, Zero, One)]
Rgb_set_green(c, g) == [c EXCEPT !.g = Clamp(g, Zero, One)]
Rgb_set_blue(c, b) == [c EXCEPT !.b = Clamp(b, Zero, One)]

\* The closure cv of from_u8, on a byte 0..255.
U8ToChannel(c) ==
  IF c = 255 THEN One
  ELSE IF c = 0 THEN Zero
  ELSE FMul(FromInt(c), ONE_OVER_256)

Rgb_from_u8(r, g, b) == RgbOf(U8ToChannel(r), U8ToChannel(g), U8ToChannel(b))

\* A u32 is held as its two 16-bit halves <<hi, lo>>.
\* ((clr >> (8 * c)) & 0xFF) as u8, for c in 0..3.
\* U32Byte_from_top counts the bytes from the top one: (clr >> (8 * (3 - c))).
U32Byte_from_top(clr, c) ==
  LET half == IF c >= 2 THEN clr[2] ELSE clr[1]
  IN (half \div 2^(8 * ((c + 1) % 2))) % 256
U32Byte(clr, c) ==
  LET half == IF c >= 2 THEN clr[1] ELSE clr[2]
  IN (half \div 2^(8 * (c % 2))) % 256

Rgb_from_u32(clr) ==
  Rgb_from_u8(U32Byte(clr, 2), U32Byte(clr, 1), U32Byte(clr, 0))

Rgb_add_wrapping(a, b) ==
  RgbOf(FAdd(a.r, b.r), FAdd(a.g, b.g), FAdd(a.b, b.b))
Rgb_add(a, b) == Rgb_new(FAdd(a.r, b.r), FAdd(a.g, b.g), FAdd(a.b, b.b))
Rgb_sub(a, b) == Rgb_new(FSub(a.r, b.r), FSub(a.g, b.g), FSub(a.b, b.b))
\* The product by rhs itself, without abs.
Rgb_mul_f32_signed(a, rhs) ==
  Rgb_new(FMul(a.r, rhs), FMul(a.g, rhs), FMul(a.b, rhs))
Rgb_mul_f32(a, rhs) ==
  LET r == FAbs(rhs)
  IN Rgb_new(FMul(a.r, r), FMul(a.g, r), FMul(a.b, r))
Rgb_mul_sum(a, b) == Rgb_new(FAdd(a.r, b.r), FAdd(a.g, b.g), FAdd(a.b, b.b))
Rgb_mul(a, b) == Rgb_new(FMul(a.r, b.r), FMul(a.g, b.g), FMul(a.b, b.b))

\* <Rgb as Rand>::rand, on the three values d the generator gives in turn.
Rgb_rand(d) == RgbOf(d[1], d[3], d[3])

\* rand_offset with the test for a seed of average 0 left out.
Rgb_rand_offset_no_gray(c, offset, rnd) ==
  Rgb_of_vec3(Vec3Scale(Rgb_as_vec3(c),
    FAdd(One, FDiv(FSub(FMul(FMul(FromInt(2), rnd), Clamp(offset, Zero, One)),
                        Clamp(offset, Zero, One)),
                   FDiv(FAdd(FAdd(c.r, c.g), c.b), FromInt(3))))))

\* The ratio of rand_offset, from val = v3.sum() / 3., the draw rnd and os.
Rgb_rand_offset_ratio(val, rnd, os) ==
  FAdd(One, FDiv(FSub(FMul(FMul(FromInt(2), rnd), os), os), val))

\* c.rand_offset(offset), rnd being the value the generator gives.
Rgb_rand_offset(c, offset, rnd) ==
  IF IsApproxEq(FDiv(FAdd(FAdd(c.r, c.g), c.b), FromInt(3)), Zero)
    THEN RgbOf(Clamp(offset, Zero, One), Clamp(offset, Zero, One),
               Clamp(offset, Zero, One))
  ELSE Rgb_of_vec3(Vec3Scale(Rgb_as_vec3(c),
         Rgb_rand_offset_ratio(FDiv(FAdd(FAdd(c.r, c.g), c.b), FromInt(3)),
                               rnd, Clamp(offset, Zero, One))))

Max3(c) == FMax(c.r, FMax(c.g, c.b))
Min3(c) == FMin(c.r, FMin(c.g, c.b))

\* The `match max` without the offsets 2 and 4 of the green and blue sectors.
Rgb_hue_deg_no_offset(rgb, max, c) ==
  IF FEq(max, rgb.r) THEN FRem(FDiv(FSub(rgb.g, rgb.b), c), FromInt(6))
  ELSE IF FEq(max, rgb.g) THEN FDiv(FSub(rgb.b, rgb.r), c)
  ELSE FDiv(FSub(rgb.r, rgb.g), c)

\* The `match max` of hue: the position on the color circle, in sixths,
\* from the largest channel max and c = max - min.
Rgb_hue_deg(rgb, max, c) ==
  IF FEq(max, rgb.r) THEN FRem(FDiv(FSub(rgb.g, rgb.b), c), FromInt(6))
  ELSE IF FEq(max, rgb.g) THEN FAdd(FDiv(FSub(rgb.b, rgb.r), c), FromInt(2))
  ELSE FAdd(FDiv(FSub(rgb.r, rgb.g), c), FromInt(4))

Rgb_hue_rad(deg) ==
  Radians(FRem(FAdd(FMul(deg, FromInt(60)), FromInt(360)), FromInt(360)))

\* hue without the test for gray.
Rgb_hue_no_gray(c) ==
  Rgb_hue_rad(Rgb_hue_deg(c, Max3(c), FSub(Max3(c), Min3(c))))
Rgb_hue(c) ==
  IF IsApproxEq(Min3(c), Max3(c)) THEN Zero
  ELSE Rgb_hue_rad(Rgb_hue_deg(c, Max3(c), FSub(Max3(c), Min3(c))))

Rgb_saturation(c) ==
  LET max == Max3(c)
      min == Min3(c)
  IN IF IsApproxEq(max, min) THEN Zero ELSE FSub(One, FDiv(min, max))

Rgb_brightness(c) == Max3(c)

Rgb_lunimance(c) ==
  Dot(Rgb_as_vec3(c), <<Dec(2126, 10000), Dec(7152, 10000), Dec(722, 10000)>>)

\* rgb::consts: the macro rgb!(r, g, b) scales every byte, 0 and 255 included.
RgbConst(r, g, b) ==
  RgbOf(FMul(FromInt(r), ONE_OVER_256), FMul(FromInt(g), ONE_OVER_256),
        FMul(FromInt(b), ONE_OVER_256))

BLACK == RgbConst(0, 0, 0)
WHITE == RgbConst(255, 255, 255)
RED == RgbConst(255, 0, 0)
GREEN == RgbConst(0, 255, 0)
BLUE == RgbConst(0, 0, 255)
YELLOW == RgbConst(255, 255, 0)
CYAN == RgbConst(0, 255, 255)
MAGENTA == RgbConst(255, 0, 255)
GRAY == RgbConst(128, 128, 128)
BROWN == RgbConst(165, 42, 42)

(***************************************************************************)
(* pow(x, y) of the glm library, which is powf of the C library, for       *)
(* 0 < x and the two exponents the conversions use, 2.4 = 12/5 and         *)
(* recip(2.4) = 5/12.  x^(p/q) is computed in f32 as x^(p div q) times the *)
(* (p mod q)-th power of the q-th root of x, the root by Newton's method;  *)
(* the result is within a few units in the last place of powf's.           *)
(***************************************************************************)

RECURSIVE IPow(_, _)
IPow(x, k) == IF k = 0 THEN One ELSE IF k = 1 THEN x ELSE FMul(IPow(x, k - 1), x)

RECURSIVE RootLoop(_, _, _, _)
RootLoop(y, x, k, steps) ==
  IF steps = 0 THEN y
  ELSE RootLoop(FDiv(FAdd(FMul(FromInt(k - 1), y), FDiv(x, IPow(y, k - 1))),
                     FromInt(k)),
                x, k, steps - 1)

\* The first guess divides the exponent of x by k.
Root(x, k) == RootLoop((x \div k) + (One - (One \div k)), x, k, 5)

PowRat(x, p, q) == FMul(IPow(x, p \div q), IPow(Root(x, q), p % q))

Recip(x) == FDiv(One, x)

Pow(x, y) ==
  IF y = Dec(12, 5) THEN PowRat(x, 12, 5)
  ELSE IF y = Recip(Dec(12, 5)) THEN PowRat(x, 5, 12)
  ELSE NaN

(***************************************************************************)
(* Hsv                                                                     *)
(***************************************************************************)

HsvOf(h, s, v) == [h |-> h, s |-> s, v |-> v]

Hsv_as_vec3(c) == <<c.h, c.s, c.v>>

\* Hsv::new without the step that turns a hue equal to 2 pi into 0.
Hsv_new_no_wrap(hue, saturation, brightness) ==
  HsvOf(Clamp(hue, Zero, TAU),
        Clamp(saturation, Zero, One), Clamp(brightness, Zero, One))
Hsv_new(hue, saturation, brightness) ==
  LET h == Clamp(hue, Zero, TAU)
  IN HsvOf(IF FEq(h, TAU) THEN Zero ELSE h,
           Clamp(saturation, Zero, One), Clamp(brightness, Zero, One))

Hsv_set_hue(c, h) ==
  LET hv == Clamp(h, Zero, TAU)
  IN [c EXCEPT !.h = IF FEq(hv, TAU) THEN Zero ELSE hv]

Hsv_from_hue(h) == Hsv_set_hue(HsvOf(Zero, One, One), h)

Hsv_with_hue(c, h) == Hsv_set_hue(c, h)

Hsv_set_saturation(c, s) == [c EXCEPT !.s = Clamp(s, Zero, One)]
Hsv_with_saturation(c, s) == Hsv_set_saturation(c, s)

Hsv_set_brightness(c, b) == [c EXCEPT !.v = Clamp(b, Zero, One)]
Hsv_with_brightness(c, b) == Hsv_set_brightness(c, b)

\* complement without the fmod.
\* <Hsv as Rand>::rand, on the three values d the generator gives in turn.
Hsv_rand(d) == HsvOf(FMul(d[1], TAU), d[2], d[3])

Hsv_complement_no_fmod(c) == Hsv_with_hue(c, FAdd(c.h, PI))
Hsv_complement(c) == Hsv_with_hue(c, Fmod(FAdd(c.h, PI), TAU))

\* A returned tuple is the sequence of its members.
Hsv_split_complement(c) ==
  <<Hsv_with_hue(c, Fmod(FAdd(c.h, Radians(FromInt(150))), TAU)),
    Hsv_with_hue(c, Fmod(FAdd(c.h, Radians(FromInt(210))), TAU))>>

\* ((c1.complement(), c1), (c2.complement(), c2)) of sc = (c1, c2)
Hsv_double_complement_of(sc) ==
  <<Hsv_complement(sc[1]), sc[1], Hsv_complement(sc[2]), sc[2]>>

Hsv_double_complement(c) == Hsv_double_complement_of(Hsv_split_complement(c))

\* triad with steps of 60 degrees.
Hsv_triad_d60(c) ==
  LET d60 == Radians(FromInt(60))
  IN <<Hsv_with_hue(c, Fmod(FAdd(c.h, d60), TAU)),
       Hsv_with_hue(c, Fmod(FAdd(FAdd(c.h, d60), d60), TAU))>>
Hsv_triad(c) ==
  LET d120 == Radians(FromInt(120))
  IN <<Hsv_with_hue(c, Fmod(FAdd(c.h, d120), TAU)),
       Hsv_with_hue(c, Fmod(FAdd(FAdd(c.h, d120), d120), TAU))>>

\* The elements are built field by field, not through Hsv::new or set_hue.
\* The closure of analogs: the element i (from 0) for the step d = span / n.
Hsv_analogs_at(c, d, i) ==
  HsvOf(Fmod(FAdd(c.h, FMul(d, FromInt(i))), TAU), c.s, c.v)

Hsv_analogs(c, count, span) ==
  IF FEq(span, Zero) \/ count = 0 THEN <<>>
  ELSE [i \in 1..count |->
          Hsv_analogs_at(c, FDiv(span, FromInt(count)), i - 1)]

\* color_wheel with half the circle for the span.
Hsv_color_wheel_half(count) == Hsv_analogs(Hsv_from_hue(Zero), count, PI)
Hsv_color_wheel(count) == Hsv_analogs(Hsv_from_hue(Zero), count, TAU)

\* Hsv::color_wheel(count)[i .. i + 2], for 0 <= i and i + 1 < count: the two
\* elements as the closure of analogs computes them.
Hsv_color_wheel_slice(count, i) ==
  <<Hsv_analogs_at(Hsv_from_hue(Zero), FDiv(TAU, FromInt(count)), i),
    Hsv_analogs_at(Hsv_from_hue(Zero), FDiv(TAU, FromInt(count)), i + 1)>>

\* tint without the clamp of amt.
Hsv_tint_any_amt(c, amt) == Hsv_with_brightness(c, FAdd(c.v, amt))
Hsv_tint(c, amt) ==
  Hsv_with_brightness(c, FAdd(c.v, Clamp(amt, Zero, One)))

Hsv_tints(c, count) ==
  IF count = 0 THEN <<>>
  ELSE LET d == FDiv(FSub(One, c.v), FromInt(count))
       IN [i \in 1..count |->
             Hsv_with_brightness(c, FAdd(c.v, FMul(d, FromInt(i - 1))))]

Hsv_shade(c, amt) ==
  Hsv_with_brightness(c, FSub(c.v, Clamp(amt, Zero, One)))

Hsv_shades(c, count) ==
  IF count = 0 THEN <<>>
  ELSE LET d == FDiv(c.v, FromInt(count))
       IN [i \in 1..count |->
             Hsv_with_brightness(c, FSub(c.v, FMul(d, FromInt(i - 1))))]

Hsv_tone(c, amt) ==
  Hsv_with_saturation(c, FSub(c.s, Clamp(amt, Zero, One)))

\* As written in the source: the step is (1 - s) / n and the result goes
\* through with_brightness.
Hsv_tones(c, count) ==
  IF count = 0 THEN <<>>
  ELSE LET d == FDiv(FSub(One, c.s), FromInt(count))
       IN [i \in 1..count |->
             Hsv_with_brightness(c, FAdd(c.s, FMul(d, FromInt(i - 1))))]

Hsv_from_rgb(c) == HsvOf(Rgb_hue(c), Rgb_saturation(c), Rgb_brightness(c))

\* What a call that reaches unreachable!() leaves: a panic, no colour.
Unreachable == [r |-> NaN, g |-> NaN, b |-> NaN, panic |-> TRUE]

\* The `match hi` of to_rgb.
Hsv_to_rgb_match(hi, v, p, q, t) ==
  IF FEq(hi, FromInt(0)) THEN Rgb_new(v, t, p)
  ELSE IF FEq(hi, FromInt(1)) THEN Rgb_new(q, v, p)
  ELSE IF FEq(hi, FromInt(2)) THEN Rgb_new(p, v, t)
  ELSE IF FEq(hi, FromInt(3)) THEN Rgb_new(p, q, v)
  ELSE IF FEq(hi, FromInt(4)) THEN Rgb_new(t, p, v)
  ELSE IF FEq(hi, FromInt(5)) THEN Rgb_new(v, p, q)
  ELSE Unreachable

\* p, q and t from the sector hi and the position f in it.
Hsv_to_rgb_pqt(s, v, hi, f) ==
  Hsv_to_rgb_match(hi, v, FMul(v, FSub(One, s)),
                   FMul(v, FSub(One, FMul(f, s))),
                   FMul(v, FSub(One, FMul(FSub(One, f), s))))

\* hi and f from hv = degrees(h) / 60.
Hsv_to_rgb_hv(s, v, hv) ==
  LET hi == FRem(FFloor(hv), FromInt(6))
  IN Hsv_to_rgb_pqt(s, v, hi, FSub(hv, hi))

Hsv_to_rgb(c) ==
  IF IsApproxEq(c.s, Zero) THEN Rgb_new(c.v, c.v, c.v)
  ELSE Hsv_to_rgb_hv(c.s, c.v, FDiv(Degrees(c.h), FromInt(60)))

(***************************************************************************)
(* YCbCr                                                                   *)
(***************************************************************************)

YCbCrOf(y, cb, cr) == [y |-> y, cb |-> cb, cr |-> cr]

YCbCr_as_vec3(c) == <<c.y, c.cb, c.cr>>

\* YCbCr::new without the clamps.
YCbCr_new_unclamped(y, cb, cr) == YCbCrOf(y, cb, cr)
YCbCr_new(y, cb, cr) ==
  YCbCrOf(Clamp(y, Zero, One),
          Clamp(cb, FNeg(Half), Half), Clamp(cr, FNeg(Half), Half))

YCbCr_of_vec3(v) == YCbCrOf(v[1], v[2], v[3])

\* from_rgb with the luma row of ITU-R BT.601 in place of BT.709's.
YCbCr_from_rgb_bt601(rgb) ==
  YCbCr_of_vec3(Mat3MulV(
    << <<Dec(299, 1000), FNeg(Dec(1146, 10000)), Half>>,
       <<Dec(587, 1000), FNeg(Dec(3854, 10000)), FNeg(Dec(4542, 10000))>>,
       <<Dec(114, 1000), Half, FNeg(Dec(458, 10000))>> >>,
    Rgb_as_vec3(rgb)))
\* The matrix is written as the source writes it, column by column.
YCbCr_from_rgb(rgb) ==
  YCbCr_of_vec3(Mat3MulV(
    << <<Dec(2126, 10000), FNeg(Dec(1146, 10000)), Half>>,
       <<Dec(7152, 10000), FNeg(Dec(3854, 10000)), FNeg(Dec(4542, 10000))>>,
       <<Dec(722, 10000), Half, FNeg(Dec(458, 10000))>> >>,
    Rgb_as_vec3(rgb)))

\* to_rgb with the inverse matrix of ITU-R BT.601.
YCbCr_to_rgb_bt601(c) ==
  Rgb_of_vec3(Mat3MulV(
    << <<One, One, One>>,
       <<Zero, FNeg(Dec(344136, 1000000)), Dec(1772, 1000)>>,
       <<Dec(1402, 1000), FNeg(Dec(714136, 1000000)), Zero>> >>,
    YCbCr_as_vec3(c)))
YCbCr_to_rgb(c) ==
  Rgb_of_vec3(Mat3MulV(
    << <<One, One, One>>,
       <<Zero, FNeg(Dec(1873, 10000)), Dec(18556, 10000)>>,
       <<Dec(15748, 10000), FNeg(Dec(4682, 10000)), Zero>> >>,
    YCbCr_as_vec3(c)))

(***************************************************************************)
(* Srgb                                                                    *)
(***************************************************************************)

SrgbOf(r, g, b) == [r |-> r, g |-> g, b |-> b]

Srgb_new(r, g, b) ==
  SrgbOf(Clamp(r, Zero, One), Clamp(g, Zero, One), Clamp(b, Zero, One))

\* The closure of from_rgb with the slope 4.5 of another transfer function.
Srgb_from_rgb_map_slope_4_5(f) ==
  IF FLe(f, Dec(31308, 10000000)) THEN FMul(f, Dec(45, 10))
  ELSE LET a == Dec(55, 1000)
       IN FSub(FMul(FAdd(One, a), Pow(f, Recip(Dec(12, 5)))), a)

\* The closure of from_rgb, applied to each channel.
Srgb_from_rgb_map(f) ==
  IF FLe(f, Dec(31308, 10000000)) THEN FMul(f, Dec(1292, 100))
  ELSE LET a == Dec(55, 1000)
       IN FSub(FMul(FAdd(One, a), Pow(f, Recip(Dec(12, 5)))), a)

Srgb_from_rgb(rgb) ==
  SrgbOf(Srgb_from_rgb_map(rgb.r), Srgb_from_rgb_map(rgb.g),
         Srgb_from_rgb_map(rgb.b))

\* The closure of to_rgb without the offset a.
Srgb_to_rgb_map_no_offset(f) ==
  IF FLe(f, Dec(4045, 100000)) THEN FDiv(f, Dec(1292, 100))
  ELSE Pow(f, Dec(12, 5))
\* The closure of to_rgb, applied to each channel.
Srgb_to_rgb_map(f) ==
  IF FLe(f, Dec(4045, 100000)) THEN FDiv(f, Dec(1292, 100))
  ELSE LET a == Dec(55, 1000)
       IN Pow(FMul(FAdd(f, a), Recip(FAdd(One, a))), Dec(12, 5))

Srgb_to_rgb(c) ==
  Rgb_new(Srgb_to_rgb_map(c.r), Srgb_to_rgb_map(c.g), Srgb_to_rgb_map(c.b))

(***************************************************************************)
(* State                                                                   *)
(*   rgb   the Rgb variable the caller holds (the receiver of the calls)   *)
(*   hsv   the Hsv variable the caller holds                               *)
(*   ycbcr the YCbCr variable the caller holds                             *)
(*   srgb  the Srgb variable the caller holds                              *)
(*   ret   what the last call returned, as a sequence (a Vec, a tuple, one *)
(*         value, or nothing for a setter)                                 *)
(*   call  the last call: its name and its arguments                       *)
(*   n     the number of calls made                                        *)
(***************************************************************************)
VARIABLES rgb, hsv, ycbcr, srgb, ret, call, n

vars == <<rgb, hsv, ycbcr, srgb, ret, call, n>>

\* The longest sequence of calls explored.
MaxOps == 2

Called(op, args) == call' = [op |-> op, args |-> args] /\ n < MaxOps /\ n' = n + 1


(***************************************************************************)
(* The arguments the calls are tried with.                                 *)
(***************************************************************************)
\* NaN is left out: what glm's clamp makes of a NaN is decided outside this
\* crate's source.  For the same reason no scale factor is infinite (0 * inf).
ChannelArgs == {FromInt(-10), Zero, Dec(1, 4), Dec(3, 4), One, FromInt(1000), Inf, -Inf}

RgbOperands == {RED, GREEN, BLUE, WHITE, BLACK, GRAY}

(***************************************************************************)
(* The calls on Rgb                                                        *)
(***************************************************************************)
CallRgbNew ==
  \E a \in { <<FromInt(-10), Zero, FromInt(1000)>>,
             <<Dec(1, 4), Half, Dec(3, 4)>>, <<Inf, -Inf, Half>>,
             <<Dec(3, 4), Dec(3, 4), Dec(3, 4)>>, <<One, Dec(1, 10), Zero>> } :
    /\ Called("Rgb::new", a)
    /\ ret' = <<Rgb_new(a[1], a[2], a[3])>>
    /\ UNCHANGED <<rgb, hsv, ycbcr, srgb>>

CallFromU8 ==
  \E a \in { <<255, 0, 0>>, <<165, 42, 42>>, <<128, 128, 128>>, <<1, 254, 77>> } :
    /\ Called("Rgb::from_u8", a)
    /\ ret' = <<Rgb_from_u8(a[1], a[2], a[3])>>
    /\ UNCHANGED <<rgb, hsv, ycbcr, srgb>>

CallFromU32 ==
  \E a \in { <<0, 65535>>, <<65280, 65535>>, <<32933, 10794>>, <<258, 772>>,
             <<4863, 255>> } :
    /\ Called("Rgb::from_u32", a)
    /\ ret' = <<Rgb_from_u32(a)>>
    /\ UNCHANGED <<rgb, hsv, ycbcr, srgb>>

CallSetRed ==
  \E x \in ChannelArgs :
    /\ Called("set_red", <<x>>)
    /\ rgb' = Rgb_set_red(rgb, x)
    /\ ret' = <<>>
    /\ UNCHANGED <<hsv, ycbcr, srgb>>

CallSetGreen ==
  \E x \in ChannelArgs :
    /\ Called("set_green", <<x>>)
    /\ rgb' = Rgb_set_green(rgb, x)
    /\ ret' = <<>>
    /\ UNCHANGED <<hsv, ycbcr, srgb>>

CallSetBlue ==
  \E x \in ChannelArgs :
    /\ Called("set_blue", <<x>>)
    /\ rgb' = Rgb_set_blue(rgb, x)
    /\ ret' = <<>>
    /\ UNCHANGED <<hsv, ycbcr, srgb>>

CallWithRed ==
  \E x \in ChannelArgs :
    /\ Called("with_red", <<x>>)
    /\ ret' = <<Rgb_with_red(rgb, x)>>
    /\ UNCHANGED <<rgb, hsv, ycbcr, srgb>>

CallWithGreen ==
  \E x \in ChannelArgs :
    /\ Called("with_green", <<x>>)
    /\ ret' = <<Rgb_with_green(rgb, x)>>
    /\ UNCHANGED <<rgb, hsv, ycbcr, srgb>>

CallWithBlue ==
  \E x \in ChannelArgs :
    /\ Called("with_blue", <<x>>)
    /\ ret' = <<Rgb_with_blue(rgb, x)>>
    /\ UNCHANGED <<rgb, hsv, ycbcr, srgb>>

CallAdd ==
  \E c \in RgbOperands :
    /\ Called("add", Rgb_as_vec3(c))
    /\ ret' = <<Rgb_add(rgb, c)>>
    /\ UNCHANGED <<rgb, hsv, ycbcr, srgb>>

CallSub ==
  \E c \in RgbOperands :
    /\ Called("sub", Rgb_as_vec3(c))
    /\ ret' = <<Rgb_sub(rgb, c)>>
    /\ UNCHANGED <<rgb, hsv, ycbcr, srgb>>

CallMulScalar ==
  \E k \in {Zero, Half, FNeg(Half), FromInt(-2), Dec(3, 2), FromInt(1000)} :
    /\ Called("mul_f32", <<k>>)
    /\ ret' = <<Rgb_mul_f32(rgb, k)>>
    /\ UNCHANGED <<rgb, hsv, ycbcr, srgb>>

CallMul ==
  \E c \in RgbOperands :
    /\ Called("mul", Rgb_as_vec3(c))
    /\ ret' = <<Rgb_mul(rgb, c)>>
    /\ UNCHANGED <<rgb, hsv, ycbcr, srgb>>

\* Rgb::rand(): the generator gives three values of [0, 1); One - 1 is the
\* largest f32 below 1.
CallRgbRand ==
  \E d \in { <<Zero, Zero, Dec(1, 4)>>, <<Dec(1, 4), One - 1, Zero>>,
              <<One - 1, Dec(1, 4), Dec(1, 4)>> } :
    /\ Called("Rgb::rand", d)
    /\ ret' = <<Rgb_rand(d)>>
    /\ UNCHANGED <<rgb, hsv, ycbcr, srgb>>

\* `clr = <the value just returned>`: the caller keeps a returned colour.
BindRgb ==
  /\ call.op # "bind" /\ ret # <<>>
  /\ rgb' = ret[1]
  /\ call' = [op |-> "bind", args |-> <<>>]
  /\ UNCHANGED <<hsv, ycbcr, srgb, ret, n>>

InitRgb ==
  /\ rgb \in {BLACK, RED, BROWN}
  /\ hsv = HsvOf(Zero, One, One)
  /\ ycbcr = YCbCr_new(Zero, Zero, Zero)
  /\ srgb = Srgb_new(Zero, Zero, Zero)
  /\ ret = <<>>
  /\ call = [op |-> "init", args |-> <<>>]
  /\ n = 0

NextRgb ==
  \/ CallRgbNew \/ CallFromU8 \/ CallFromU32
  \/ CallSetRed \/ CallSetGreen \/ CallSetBlue
  \/ CallWithRed \/ CallWithGreen \/ CallWithBlue
  \/ CallAdd \/ CallSub \/ CallMulScalar \/ CallMul \/ CallRgbRand
  \/ BindRgb

SpecRgb == InitRgb /\ [][NextRgb]_vars

(***************************************************************************)
(* The product by a scalar, on colors down to the least positive channel   *)
(***************************************************************************)

\* Zero + 1 is the least positive f32, 2^-149.
InitScale ==
  /\ rgb \in {BLACK, WHITE, BROWN, Rgb_new(Dec(1, 4), Half, Dec(3, 4)),
              Rgb_new(Zero + 1, Zero, Zero), Rgb_new(Zero, Zero + 3, Zero + 1)}
  /\ hsv = HsvOf(Zero, One, One)
  /\ ycbcr = YCbCr_new(Zero, Zero, Zero)
  /\ srgb = Srgb_new(Zero, Zero, Zero)
  /\ ret = <<>>
  /\ call = [op |-> "init", args |-> <<>>]
  /\ n = 0

NextScale == CallMulScalar \/ BindRgb

SpecScale == InitScale /\ [][NextScale]_vars

(***************************************************************************)
(* rand_offset, on colors of a large, a small and a zero average           *)
(***************************************************************************)

\* The least f32 above EPSILON, and the seeds whose average is next to it.
OffsetSeeds ==
  {BLACK, WHITE, BROWN, Rgb_new(Zero, Zero, FMul(FromInt(3), EPSILON)),
   Rgb_new(FMul(FromInt(3), EPSILON + 1), Zero, Zero),
   Rgb_new(Zero, FMul(FromInt(6), EPSILON), Zero)}

\* The draw is a value of [0, 1); One - 1 is the largest f32 below 1.
CallRandOffset ==
  \E offset \in {FromInt(-1), Zero, Dec(1, 4), One, Inf},
     rnd \in {Zero, Dec(1, 4), Half, One - 1} :
    /\ Called("rand_offset", <<offset, rnd>>)
    /\ ret' = <<Rgb_rand_offset(rgb, offset, rnd)>>
    /\ UNCHANGED <<rgb, hsv, ycbcr, srgb>>

InitOffset ==
  /\ rgb \in OffsetSeeds
  /\ hsv = HsvOf(Zero, One, One)
  /\ ycbcr = YCbCr_new(Zero, Zero, Zero)
  /\ srgb = Srgb_new(Zero, Zero, Zero)
  /\ ret = <<>>
  /\ call = [op |-> "init", args |-> <<>>]
  /\ n = 0

NextOffset == CallRandOffset \/ BindRgb

SpecOffset == InitOffset /\ [][NextOffset]_vars

(***************************************************************************)
(* The calls on Hsv                                                        *)
(***************************************************************************)

\* The largest n of analogs, color_wheel, tints, shades and tones.
MaxCount == 3

CountArgs == {0, 1, MaxCount}

HueArgs == {FromInt(-1), Radians(FromInt(60)), TAU, FromInt(7)}

UnitArgs == {Dec(1, 4), FromInt(2)}

CallHsvNew ==
  \E a \in { <<FromInt(7), FromInt(2), One>>, <<One, Half, Dec(1, 5)>>,
      <<FromInt(-1), FromInt(-1), FromInt(2)>>, <<Inf, Inf, -Inf>> } :
    /\ Called("Hsv::new", a)
    /\ ret' = <<Hsv_new(a[1], a[2], a[3])>>
    /\ UNCHANGED <<rgb, hsv, ycbcr, srgb>>

CallFromHue ==
  \E h \in HueArgs :
    /\ Called("Hsv::from_hue", <<h>>)
    /\ ret' = <<Hsv_from_hue(h)>>
    /\ UNCHANGED <<rgb, hsv, ycbcr, srgb>>

CallSetHue ==
  \E h \in HueArgs :
    /\ Called("set_hue", <<h>>)
    /\ hsv' = Hsv_set_hue(hsv, h)
    /\ ret' = <<>>
    /\ UNCHANGED <<rgb, ycbcr, srgb>>

CallSetSaturation ==
  \E x \in UnitArgs :
    /\ Called("set_saturation", <<x>>)
    /\ hsv' = Hsv_set_saturation(hsv, x)
    /\ ret' = <<>>
    /\ UNCHANGED <<rgb, ycbcr, srgb>>

CallSetBrightness ==
  \E x \in UnitArgs :
    /\ Called("set_brightness", <<x>>)
    /\ hsv' = Hsv_set_brightness(hsv, x)
    /\ ret' = <<>>
    /\ UNCHANGED <<rgb, ycbcr, srgb>>

CallWithHue ==
  \E h \in HueArgs :
    /\ Called("with_hue", <<h>>)
    /\ ret' = <<Hsv_with_hue(hsv, h)>>
    /\ UNCHANGED <<rgb, hsv, ycbcr, srgb>>

CallWithSaturation ==
  \E x \in UnitArgs :
    /\ Called("with_saturation", <<x>>)
    /\ ret' = <<Hsv_with_saturation(hsv, x)>>
    /\ UNCHANGED <<rgb, hsv, ycbcr, srgb>>

CallWithBrightness ==
  \E x \in UnitArgs :
    /\ Called("with_brightness", <<x>>)
    /\ ret' = <<Hsv_with_brightness(hsv, x)>>
    /\ UNCHANGED <<rgb, hsv, ycbcr, srgb>>

CallComplement ==
  /\ Called("complement", <<>>)
  /\ ret' = <<Hsv_complement(hsv)>>
  /\ UNCHANGED <<rgb, hsv, ycbcr, srgb>>

CallSplitComplement ==
  /\ Called("split_complement", <<>>)
  /\ ret' = Hsv_split_complement(hsv)
  /\ UNCHANGED <<rgb, hsv, ycbcr, srgb>>

CallDoubleComplement ==
  /\ Called("double_complement", <<>>)
  /\ ret' = Hsv_double_complement(hsv)
  /\ UNCHANGED <<rgb, hsv, ycbcr, srgb>>

CallTriad ==
  /\ Called("triad", <<>>)
  /\ ret' = Hsv_triad(hsv)
  /\ UNCHANGED <<rgb, hsv, ycbcr, srgb>>

\* The spans: none, 30 degrees, a span far below the spacing of the
\* f32 next to 2 pi, a span of -1e8, and an infinite one.
CallAnalogs ==
  \E a \in { <<0, Radians(FromInt(30))>>, <<1, Radians(FromInt(30))>>,
              <<MaxCount, Radians(FromInt(30))>>, <<MaxCount, Zero>>,
              <<MaxCount, FNeg(Dec(1, 10000000))>>,
              <<MaxCount, FromInt(-100000000)>>, <<1, Inf>> } :
    /\ Called("analogs", a)
    /\ ret' = Hsv_analogs(hsv, a[1], a[2])
    /\ UNCHANGED <<rgb, hsv, ycbcr, srgb>>

CallColorWheel ==
  \E count \in CountArgs :
    /\ Called("Hsv::color_wheel", <<count>>)
    /\ ret' = Hsv_color_wheel(count)
    /\ UNCHANGED <<rgb, hsv, ycbcr, srgb>>

\* Two neighbours of a wheel of 3, of 2^23 and of 2^24 colors.
CallColorWheelSlice ==
  \E a \in { <<3, 1>>, <<2^23, 2^23 - 2>>, <<2^24, 2^24 - 3>> } :
    /\ Called("Hsv::color_wheel[i..i+2]", a)
    /\ ret' = Hsv_color_wheel_slice(a[1], a[2])
    /\ UNCHANGED <<rgb, hsv, ycbcr, srgb>>

CallTint ==
  \E amt \in UnitArgs \cup {FromInt(-1)} :
    /\ Called("tint", <<amt>>)
    /\ ret' = <<Hsv_tint(hsv, amt)>>
    /\ UNCHANGED <<rgb, hsv, ycbcr, srgb>>

CallTints ==
  \E count \in CountArgs :
    /\ Called("tints", <<count>>)
    /\ ret' = Hsv_tints(hsv, count)
    /\ UNCHANGED <<rgb, hsv, ycbcr, srgb>>

CallShade ==
  \E amt \in UnitArgs \cup {FromInt(-1)} :
    /\ Called("shade", <<amt>>)
    /\ ret' = <<Hsv_shade(hsv, amt)>>
    /\ UNCHANGED <<rgb, hsv, ycbcr, srgb>>

CallShades ==
  \E count \in CountArgs :
    /\ Called("shades", <<count>>)
    /\ ret' = Hsv_shades(hsv, count)
    /\ UNCHANGED <<rgb, hsv, ycbcr, srgb>>

CallTone ==
  \E amt \in UnitArgs \cup {FromInt(-1)} :
    /\ Called("tone", <<amt>>)
    /\ ret' = <<Hsv_tone(hsv, amt)>>
    /\ UNCHANGED <<rgb, hsv, ycbcr, srgb>>

CallTones ==
  \E count \in CountArgs :
    /\ Called("tones", <<count>>)
    /\ ret' = Hsv_tones(hsv, count)
    /\ UNCHANGED <<rgb, hsv, ycbcr, srgb>>

CallHsvFromRgb ==
  \E c \in {RED, GRAY, BROWN} :
    /\ Called("Hsv::from_rgb", Rgb_as_vec3(c))
    /\ ret' = <<Hsv_from_rgb(c)>>
    /\ UNCHANGED <<rgb, hsv, ycbcr, srgb>>

\* Hsv::rand(): the generator gives three values of [0, 1), the smallest and
\* the largest among them.
CallHsvRand ==
  \E d \in { <<Zero, Half, Half>>, <<One - 1, One - 1, One - 1>> } :
    /\ Called("Hsv::rand", d)
    /\ ret' = <<Hsv_rand(d)>>
    /\ UNCHANGED <<rgb, hsv, ycbcr, srgb>>

\* `rgb = hsv.to_rgb()`
CallToRgb ==
  /\ Called("to_rgb", <<>>)
  /\ rgb' = Hsv_to_rgb(hsv)
  /\ ret' = <<>>
  /\ UNCHANGED <<hsv, ycbcr, srgb>>

\* `clr = <one of the values just returned>`
BindHsv ==
  \E i \in DOMAIN ret :
    /\ call.op # "bind"
    /\ hsv' = ret[i]
    /\ call' = [op |-> "bind", args |-> <<i>>]
    /\ UNCHANGED <<rgb, ycbcr, srgb, ret, n>>

InitHsv ==
  /\ rgb = BLACK
  /\ hsv \in {Hsv_from_hue(Zero), Hsv_new(One, Half, Dec(1, 5))}
  /\ ycbcr = YCbCr_new(Zero, Zero, Zero)
  /\ srgb = Srgb_new(Zero, Zero, Zero)
  /\ ret = <<>>
  /\ call = [op |-> "init", args |-> <<>>]
  /\ n = 0

NextHsv ==
  \/ CallHsvNew \/ CallFromHue
  \/ CallSetHue \/ CallSetSaturation \/ CallSetBrightness
  \/ CallWithHue \/ CallWithSaturation \/ CallWithBrightness
  \/ CallComplement \/ CallSplitComplement \/ CallDoubleComplement
  \/ CallTriad \/ CallAnalogs \/ CallColorWheel
  \/ CallTint \/ CallTints \/ CallShade \/ CallShades
  \/ CallTone \/ CallTones \/ CallHsvFromRgb
  \/ BindHsv

SpecHsv == InitHsv /\ [][NextHsv]_vars

(***************************************************************************)
(* The setters and the with_ methods of Rgb and Hsv, on one caller's two   *)
(* colors                                                                  *)
(***************************************************************************)
NextSetters ==
  \/ CallSetRed \/ CallSetGreen \/ CallSetBlue
  \/ CallWithRed \/ CallWithGreen \/ CallWithBlue
  \/ CallSetHue \/ CallSetSaturation \/ CallSetBrightness
  \/ CallWithHue \/ CallWithSaturation \/ CallWithBrightness

SpecSetters == InitRgb /\ [][NextSetters]_vars

\* The colors derived from a color, random colors, and their conversion to Rgb.
NextDerived ==
  \/ CallHsvNew \/ CallHsvFromRgb \/ CallHsvRand
  \/ CallComplement \/ CallSplitComplement \/ CallDoubleComplement
  \/ CallTriad \/ CallAnalogs \/ CallColorWheel \/ CallColorWheelSlice
  \/ CallTints \/ CallShades \/ CallTones
  \/ CallToRgb
  \/ BindHsv

SpecDerived == InitHsv /\ [][NextDerived]_vars

(***************************************************************************)
(* The conversions: an Rgb value is converted to another color space with  *)
(* ColorSpace::from_rgb and the result is converted back with to_rgb.      *)
(***************************************************************************)

\* The colors that are converted: colors of 8-bit channels, among them the
\* named constants' channel values, and grays made by Rgb::new.
ByteArgs == {0, 1, 114, 254, 255}

ConvArgs ==
  {Rgb_from_u8(r, g, b) : r \in ByteArgs, g \in ByteArgs, b \in ByteArgs}
    \cup {Rgb_new(v, v, v) :
            v \in {FromInt(-1), Dec(1, 1000), Dec(3, 1000), Dec(1, 3),
                   Dec(31308, 10000000), Dec(9, 10), FromInt(2)}}
    \cup {GRAY, BROWN}

ConvertToHsv ==
  /\ call.op = "init"
  /\ Called("from_rgb::<Hsv>", Rgb_as_vec3(rgb))
  /\ hsv' = Hsv_from_rgb(rgb)
  /\ ret' = <<>>
  /\ UNCHANGED <<rgb, ycbcr, srgb>>

HsvToRgb ==
  /\ call.op = "from_rgb::<Hsv>"
  /\ Called("Hsv::to_rgb", Hsv_as_vec3(hsv))
  /\ ret' = <<Hsv_to_rgb(hsv)>>
  /\ UNCHANGED <<rgb, hsv, ycbcr, srgb>>

ConvertToSrgb ==
  /\ call.op = "init"
  /\ Called("from_rgb::<Srgb>", Rgb_as_vec3(rgb))
  /\ srgb' = Srgb_from_rgb(rgb)
  /\ ret' = <<>>
  /\ UNCHANGED <<rgb, hsv, ycbcr>>

SrgbToRgb ==
  /\ call.op = "from_rgb::<Srgb>"
  /\ Called("Srgb::to_rgb", Rgb_as_vec3(srgb))
  /\ ret' = <<Srgb_to_rgb(srgb)>>
  /\ UNCHANGED <<rgb, hsv, ycbcr, srgb>>

ConvertToYCbCr ==
  /\ call.op = "init"
  /\ Called("from_rgb::<YCbCr>", Rgb_as_vec3(rgb))
  /\ ycbcr' = YCbCr_from_rgb(rgb)
  /\ ret' = <<>>
  /\ UNCHANGED <<rgb, hsv, srgb>>

YCbCrToRgb ==
  /\ call.op = "from_rgb::<YCbCr>"
  /\ Called("YCbCr::to_rgb", YCbCr_as_vec3(ycbcr))
  /\ ret' = <<YCbCr_to_rgb(ycbcr)>>
  /\ UNCHANGED <<rgb, hsv, ycbcr, srgb>>

\* rgb.lunimance(), next to the conversion of rgb to YCbCr.
CallLunimance ==
  /\ call.op = "from_rgb::<YCbCr>"
  /\ Called("lunimance", Rgb_as_vec3(rgb))
  /\ ret' = <<Rgb_lunimance(rgb)>>
  /\ UNCHANGED <<rgb, hsv, ycbcr, srgb>>

CallYCbCrNew ==
  \E a \in { <<Half, Dec(1, 4), FNeg(Dec(1, 4))>>, <<FromInt(2), FromInt(-1), One>>,
      <<FromInt(-1), Dec(51, 100), FNeg(Dec(51, 100))>>, <<Inf, -Inf, Inf>> } :
    /\ call.op = "init"
    /\ Called("YCbCr::new", a)
    /\ ycbcr' = YCbCr_new(a[1], a[2], a[3])
    /\ ret' = <<>>
    /\ UNCHANGED <<rgb, hsv, srgb>>

InitConv ==
  /\ rgb \in ConvArgs
  /\ hsv = HsvOf(Zero, One, One)
  /\ ycbcr = YCbCr_new(Zero, Zero, Zero)
  /\ srgb = Srgb_new(Zero, Zero, Zero)
  /\ ret = <<>>
  /\ call = [op |-> "init", args |-> <<>>]
  /\ n = 0

NextConv ==
  \/ ConvertToHsv \/ HsvToRgb
  \/ ConvertToSrgb \/ SrgbToRgb
  \/ ConvertToYCbCr \/ YCbCrToRgb \/ CallLunimance
  \/ CallYCbCrNew

SpecConv == InitConv /\ [][NextConv]_vars

(***************************************************************************)
(* Claims                                                                  *)
(***************************************************************************)

RgbInRange(c) ==
  /\ FLe(Zero, c.r) /\ FLe(c.r, One)
  /\ FLe(Zero, c.g) /\ FLe(c.g, One)
  /\ FLe(Zero, c.b) /\ FLe(c.b, One)

\* C1: whatever Rgb calls were made, with whatever arguments, the Rgb the
\* caller holds and every Rgb a call returned have r, g and b in [0, 1].
C1_RgbChannelsInRange ==
  RgbInRange(rgb) /\ \A i \in DOMAIN ret : RgbInRange(ret[i])

\* A setter was given an out-of-range argument and the colour was then
\* scaled by 1000.
C1_Witness ==
  /\ n = MaxOps
  /\ call.op = "mul_f32" /\ call.args = <<FromInt(1000)>>
  /\ rgb = RgbOf(Zero, One, Zero)
  /\ ret = <<RgbOf(Zero, One, Zero)>>

\* C10: a + b is the per-channel sum saturated at 1, so RED + GREEN = YELLOW,
\* GREEN + BLUE = CYAN, RED + BLUE = MAGENTA, (RED + GREEN) + BLUE = WHITE and
\* RED + RED = RED.
C10_AddSaturates ==
  call.op = "add" =>
    /\ ret[1].r = FMin(One, FAdd(rgb.r, call.args[1]))
    /\ ret[1].g = FMin(One, FAdd(rgb.g, call.args[2]))
    /\ ret[1].b = FMin(One, FAdd(rgb.b, call.args[3]))
    /\ (rgb = RED /\ call.args = Rgb_as_vec3(GREEN) => ret[1] = YELLOW)
    /\ (rgb = GREEN /\ call.args = Rgb_as_vec3(BLUE) => ret[1] = CYAN)
    /\ (rgb = RED /\ call.args = Rgb_as_vec3(BLUE) => ret[1] = MAGENTA)
    /\ (rgb = YELLOW /\ call.args = Rgb_as_vec3(BLUE) => ret[1] = WHITE)
    /\ (rgb = RED /\ call.args = Rgb_as_vec3(RED) => ret[1] = RED)

\* RED + GREEN was kept and BLUE added to it.
C10_Witness ==
  /\ n = 2 /\ call.op = "add"
  /\ rgb = YELLOW /\ call.args = Rgb_as_vec3(BLUE) /\ ret = <<WHITE>>

HsvInRange(c) ==
  /\ FLe(Zero, c.h) /\ FLt(c.h, TAU)
  /\ FLe(Zero, c.s) /\ FLe(c.s, One)
  /\ FLe(Zero, c.v) /\ FLe(c.v, One)

\* C2: after any sequence of Hsv operations with arbitrary arguments, every
\* Hsv value, the one held and the ones just returned, has its hue in
\* [0, 2 pi) and its saturation and brightness in [0, 1].
C2_HsvComponentsInRange ==
  HsvInRange(hsv) /\ \A i \in DOMAIN ret : HsvInRange(ret[i])

\* The hue that C3 gives for an argument h: h itself in [0, 2 pi), else 0.
NormalHue(h) == IF FLe(Zero, h) /\ FLt(h, TAU) THEN h ELSE Zero

\* The saturation or brightness that C3 gives for an argument x.
Unit(x) == IF FLt(x, Zero) THEN Zero ELSE IF FLt(One, x) THEN One ELSE x

\* C3: Hsv::new, set_hue and from_hue store a hue of [0, 2 pi) unchanged and
\* turn a hue on or past 2 pi, and a negative hue, into 0; Hsv::new clamps
\* saturation and brightness to [0, 1]; so Hsv::new(7, 2, 1) has hue 0 and
\* saturation 1, and Hsv::new(2 pi, 1, 1) is Hsv::from_hue(0).
C3_HueNormalized ==
  /\ call.op = "Hsv::new" =>
       ret[1] = HsvOf(NormalHue(call.args[1]), Unit(call.args[2]),
                      Unit(call.args[3]))
  /\ call.op = "Hsv::from_hue" =>
       ret[1] = HsvOf(NormalHue(call.args[1]), One, One)
  /\ call.op = "set_hue" => hsv.h = NormalHue(call.args[1])
  /\ Hsv_new(FromInt(7), FromInt(2), One) = HsvOf(Zero, One, One)
  /\ Hsv_new(TAU, One, One) = Hsv_from_hue(Zero)

C3_Witness ==
  /\ call.op = "Hsv::new"
  /\ call.args = <<FromInt(7), FromInt(2), One>>
  /\ ret = <<HsvOf(Zero, One, One)>>

\* Every channel of a is within tol of the same channel of b.
RgbWithin(a, b, tol) ==
  /\ FLe(FAbs(FSub(a.r, b.r)), tol)
  /\ FLe(FAbs(FSub(a.g, b.g)), tol)
  /\ FLe(FAbs(FSub(a.b, b.b)), tol)

\* C4: for every Rgb value x, Hsv::from_rgb(x).to_rgb() is within 1e-6 of x
\* on every channel.
C4_HsvRoundTrip ==
  call.op = "Hsv::to_rgb" => RgbWithin(ret[1], rgb, Dec(1, 1000000))

IsGray(c) == c.r = c.g /\ c.g = c.b

\* C5: for a gray x = Rgb::new(v, v, v), Hsv::from_rgb(x) has saturation 0 and
\* hue 0, and its to_rgb() is x again, with r = g = b = the Hsv brightness.
C5_GrayRoundTrip ==
  IsGray(rgb) =>
    /\ call.op = "from_rgb::<Hsv>" => hsv = HsvOf(Zero, Zero, rgb.r)
    /\ call.op = "Hsv::to_rgb" => ret = <<rgb>> /\ ret = <<RgbOf(hsv.v, hsv.v, hsv.v)>>

C5_Witness ==
  /\ call.op = "Hsv::to_rgb"
  /\ rgb = RgbOf(Dec(1, 3), Dec(1, 3), Dec(1, 3))
  /\ hsv = HsvOf(Zero, Zero, Dec(1, 3))
  /\ ret = <<rgb>>

\* C6: for every Rgb value x, Srgb::from_rgb(x).to_rgb() is within 1e-4 of x
\* on every channel; from_rgb multiplies a channel at or below the break
\* point 0.0031308 by 12.92 and applies the power law above it.
C6_SrgbRoundTrip ==
  /\ call.op = "Srgb::to_rgb" => RgbWithin(ret[1], rgb, Dec(1, 10000))
  /\ call.op = "from_rgb::<Srgb>" =>
       \A i \in 1..3 :
         LET f == Rgb_as_vec3(rgb)[i]
             e == Rgb_as_vec3(srgb)[i]
         IN IF FLe(f, Dec(31308, 10000000))
            THEN e = FMul(f, Dec(1292, 100))
            ELSE e = FSub(FMul(Dec(1055, 1000), Pow(f, Recip(Dec(12, 5)))),
                          Dec(55, 1000))

C6_Witness ==
  /\ call.op = "Srgb::to_rgb"
  /\ rgb = Rgb_from_u8(114, 0, 254)
  /\ FLt(Dec(4045, 100000), srgb.r) /\ srgb.g = Zero
  /\ ret[1] # rgb
  /\ RgbWithin(ret[1], rgb, Dec(1, 10000))

\* C7: for every Rgb value x, the luma of YCbCr::from_rgb(x) is
\* 0.2126*r + 0.7152*g + 0.0722*b, equals x.lunimance(), and is in [0, 1].
C7_LumaIsLunimance ==
  /\ call.op = "from_rgb::<YCbCr>" =>
       /\ ycbcr.y = FAdd(FAdd(FMul(Dec(2126, 10000), rgb.r),
                              FMul(Dec(7152, 10000), rgb.g)),
                         FMul(Dec(722, 10000), rgb.b))
       /\ FLe(Zero, ycbcr.y) /\ FLe(ycbcr.y, One)
  /\ call.op = "lunimance" => ret = <<ycbcr.y>>

C7_Witness ==
  /\ call.op = "lunimance"
  /\ rgb = BROWN
  /\ ret = <<ycbcr.y>>
  /\ FLt(Zero, ycbcr.y) /\ FLt(ycbcr.y, One)

\* C8: a YCbCr value made by from_rgb, without the clamps of the constructor,
\* or by YCbCr::new has y in [0, 1] and cb and cr in [-0.5, 0.5].
C8_ChromaInRange ==
  call.op \in {"from_rgb::<YCbCr>", "YCbCr::new"} =>
    /\ FLe(Zero, ycbcr.y) /\ FLe(ycbcr.y, One)
    /\ FLe(FAbs(ycbcr.cb), Half)
    /\ FLe(FAbs(ycbcr.cr), Half)

C8_Witness ==
  /\ call.op = "from_rgb::<YCbCr>"
  /\ rgb = Rgb_from_u8(0, 0, 255)
  /\ ycbcr.cb = Half

\* C9: for every Rgb value x, YCbCr::from_rgb(x).to_rgb() is within 0.0001 of
\* x on every channel.
C9_YCbCrRoundTrip ==
  call.op = "YCbCr::to_rgb" => RgbWithin(ret[1], rgb, Dec(1, 10000))

C9_Witness ==
  /\ call.op = "YCbCr::to_rgb"
  /\ rgb = Rgb_from_u8(0, 0, 255)
  /\ ret[1] # rgb
  /\ RgbWithin(ret[1], rgb, Dec(1, 10000))

(***************************************************************************)
(* Rgb: multiplication and packed integers                                 *)
(***************************************************************************)
\* C11: for every Rgb x the caller can hold, x * WHITE is x and x * BLACK is
\* BLACK.
C11_MulIdentityAnnihilator ==
  call.op = "mul" =>
    /\ (call.args = Rgb_as_vec3(WHITE) => ret[1] = rgb)
    /\ (call.args = Rgb_as_vec3(BLACK) => ret[1] = BLACK)

\* A colour with three different channels was multiplied by WHITE.
C11_Witness ==
  /\ call.op = "mul" /\ call.args = Rgb_as_vec3(WHITE)
  /\ rgb.g = Dec(1, 4) /\ rgb.r # rgb.g /\ rgb.b # rgb.g /\ rgb.r # rgb.b
  /\ ret[1] = rgb

\* C12: Rgb::from_u32(c) is Rgb::from_u8((c >> 16) & 0xFF, (c >> 8) & 0xFF,
\* c & 0xFF); the top byte of c changes nothing; a byte 0 gives the channel 0
\* and a byte 255 the channel 1; from_u32(0x00FFFF) is CYAN, whose red is 0.
C12_FromU32LowBytes ==
  /\ call.op = "Rgb::from_u32" =>
        /\ ret[1] = Rgb_from_u8(call.args[1] % 256, call.args[2] \div 256,
                                call.args[2] % 256)
        /\ ret[1] = Rgb_from_u32(<<call.args[1] % 256, call.args[2]>>)
        /\ (call.args[2] % 256 = 0 => ret[1].b = Zero)
        /\ (call.args[2] % 256 = 255 => ret[1].b = One)
        /\ (call.args[2] \div 256 = 0 => ret[1].g = Zero)
        /\ (call.args[2] \div 256 = 255 => ret[1].g = One)
        /\ (call.args[1] % 256 = 0 => ret[1].r = Zero)
        /\ (call.args[1] % 256 = 255 => ret[1].r = One)
  /\ Rgb_from_u32(<<0, 65535>>) = CYAN
  /\ Rgb_from_u32(<<0, 65535>>).r = Zero

\* 0x80A52A2A, with a top byte that is not 0, gave BROWN.
C12_Witness ==
  /\ call.op = "Rgb::from_u32" /\ call.args = <<32933, 10794>>
  /\ ret[1] = BROWN

(***************************************************************************)
(* Hsv: the derived colors                                                 *)
(***************************************************************************)
\* The hue of element i of a wheel of count colors, i * 2 pi / count.
WheelHue(i, count) == FDiv(FMul(FromInt(i), TAU), FromInt(count))

\* |x - y| <= 1e-6
Near(x, y) == FLe(FAbs(FSub(x, y)), Dec(1, 1000000))

\* The colors of a wheel of count colors, of which ws are the elements from
\* index i0 on: full saturation and brightness, element i at i * 2 pi / count,
\* neighbours one step 2 pi / count apart.
WheelColors(ws, i0, count) ==
  /\ \A k \in DOMAIN ws :
        /\ ws[k].s = One /\ ws[k].v = One
        /\ Near(ws[k].h, WheelHue(i0 + k - 1, count))
  /\ \A k \in DOMAIN ws :
        (k + 1) \in DOMAIN ws =>
          Near(FSub(ws[k + 1].h, ws[k].h), FDiv(TAU, FromInt(count)))

\* No two elements of ws have the same hue.
DistinctHues(ws) ==
  \A j, k \in DOMAIN ws : j # k => ~FEq(ws[j].h, ws[k].h)

\* C13 as stated: Hsv::color_wheel(n) has exactly n elements for every n (none
\* for n = 0), all of saturation 1 and brightness 1, element i of hue
\* i * 2 pi / n, the first equal to Hsv::from_hue(0), the hues evenly spaced and
\* pairwise distinct.
C13_ColorWheel ==
  /\ call.op = "Hsv::color_wheel" =>
        /\ Len(ret) = call.args[1]
        /\ WheelColors(ret, 0, call.args[1])
        /\ (call.args[1] >= 1 => ret[1] = Hsv_from_hue(Zero))
        /\ DistinctHues(ret)
  /\ call.op = "Hsv::color_wheel[i..i+2]" =>
        /\ WheelColors(ret, call.args[2], call.args[1])
        /\ DistinctHues(ret)

\* The largest n for which the step 2 pi / n is more than the distance between
\* two neighbouring f32 values just below 2 pi (2^-21).
WheelDistinctMax == 2^23

\* C13 amended: as C13, with the hues pairwise distinct for n <= 2^23 only.
C13_ColorWheelUpTo ==
  /\ call.op = "Hsv::color_wheel" =>
        /\ Len(ret) = call.args[1]
        /\ WheelColors(ret, 0, call.args[1])
        /\ (call.args[1] >= 1 => ret[1] = Hsv_from_hue(Zero))
        /\ DistinctHues(ret)
  /\ call.op = "Hsv::color_wheel[i..i+2]" =>
        /\ WheelColors(ret, call.args[2], call.args[1])
        /\ (call.args[1] <= WheelDistinctMax => DistinctHues(ret))

\* The last two colors of a wheel of 2^23 colors, and they differ.
C13_Witness ==
  /\ call.op = "Hsv::color_wheel[i..i+2]"
  /\ call.args = <<2^23, 2^23 - 2>>
  /\ FLt(ret[1].h, ret[2].h) /\ FLt(ret[2].h, TAU)

\* The hue of element i of analogs(count, span) on a color of hue h,
\* (h + i * span / count) mod 2 pi.
AnalogHue(h, i, count, span) ==
  Fmod(FAdd(h, FDiv(FMul(FromInt(i), span), FromInt(count))), TAU)

\* x and y are the same angle to 1e-6: next to each other, or 2 pi apart.
NearOnCircle(x, y) == Near(x, y) \/ Near(FAbs(FSub(x, y)), TAU)

\* C14: for a finite span and a receiver whose hue is a number,
\* analogs(n, span) is empty when n = 0 or span = 0; otherwise it has exactly n
\* elements, element i with the hue (h + i * span / n) mod 2 pi and the
\* saturation and brightness of the receiver, and element 0 is the receiver.
C14_Analogs ==
  (call.op = "analogs" /\ ~IsInf(call.args[2]) /\ ~IsNaN(hsv.h)) =>
    IF call.args[1] = 0 \/ FEq(call.args[2], Zero) THEN ret = <<>>
    ELSE /\ Len(ret) = call.args[1]
         /\ \A k \in DOMAIN ret :
               /\ ret[k].s = hsv.s /\ ret[k].v = hsv.v
               /\ NearOnCircle(ret[k].h,
                               AnalogHue(hsv.h, k - 1, call.args[1], call.args[2]))
         /\ ret[1] = hsv

\* The hue opposite to h on the circle, in [0, 2 pi): h + pi below pi, h - pi
\* from pi on.
OppositeHue(h) == IF FLt(h, PI) THEN FAdd(h, PI) ELSE FSub(h, PI)

\* C15: complement returns the receiver's saturation and brightness with the
\* hue (h + pi) mod 2 pi, in [0, 2 pi); Hsv::from_hue(0).complement() is
\* Hsv::from_hue(pi).
C15_Complement ==
  /\ (call.op = "complement" /\ ~IsNaN(hsv.h)) =>
        /\ ret[1].s = hsv.s /\ ret[1].v = hsv.v
        /\ NearOnCircle(ret[1].h, OppositeHue(hsv.h))
        /\ FLe(Zero, ret[1].h) /\ FLt(ret[1].h, TAU)
  /\ Hsv_complement(Hsv_from_hue(Zero)) = Hsv_from_hue(PI)

\* The complement of a color past pi: the sum h + pi wrapped around.
C15_Witness ==
  /\ call.op = "complement"
  /\ FLt(PI, hsv.h) /\ FLt(hsv.h, TAU) /\ hsv.s = Half
  /\ FLt(Zero, ret[1].h) /\ FLt(ret[1].h, PI)

\* The steps of x from one element of cs to the next are the same to 1e-6,
\* where x is "s" or "v".
EvenSteps(cs, x) ==
  \A k \in DOMAIN cs :
    (k + 2) \in DOMAIN cs =>
      Near(FSub(cs[k + 1][x], cs[k][x]), FSub(cs[k + 2][x], cs[k + 1][x]))

\* C16: tints(n) is empty for n = 0; for n >= 1 it has n elements with the
\* receiver's hue and saturation, the brightness goes up evenly from one
\* element to the next, the first element is the receiver and the last has
\* brightness 1.
C16_Tints ==
  call.op = "tints" =>
    IF call.args[1] = 0 THEN ret = <<>>
    ELSE /\ Len(ret) = call.args[1]
         /\ \A k \in DOMAIN ret : ret[k].h = hsv.h /\ ret[k].s = hsv.s
         /\ \A k \in DOMAIN ret :
               (k + 1) \in DOMAIN ret => FLe(ret[k].v, ret[k + 1].v)
         /\ EvenSteps(ret, "v")
         /\ ret[1] = hsv
         /\ ret[Len(ret)].v = One

\* C17: tones(n) is empty for n = 0; for n >= 1 it has n elements, and from
\* one element to the next the saturation goes down evenly toward 0: it gets
\* smaller when the receiver's saturation is not 0, and never negative.
C17_Tones ==
  call.op = "tones" =>
    IF call.args[1] = 0 THEN ret = <<>>
    ELSE /\ Len(ret) = call.args[1]
         /\ \A k \in DOMAIN ret : FLe(Zero, ret[k].s)
         /\ \A k \in DOMAIN ret :
               ((k + 1) \in DOMAIN ret /\ FLt(Zero, hsv.s)) =>
                 FLt(ret[k + 1].s, ret[k].s)
         /\ EvenSteps(ret, "s")

\* C18: double_complement returns two pairs <<a1, b1, a2, b2>> of colors with
\* the receiver's saturation and brightness; the hues of a pair are pi apart;
\* the first color of the first pair is the first color of split_complement
\* (hue + 150 degrees) and the first color of the second pair is the second
\* one (hue + 210 degrees).
C18_DoubleComplement ==
  (call.op = "double_complement" /\ ~IsNaN(hsv.h)) =>
    /\ Len(ret) = 4
    /\ \A k \in DOMAIN ret : ret[k].s = hsv.s /\ ret[k].v = hsv.v
    /\ NearOnCircle(ret[1].h, OppositeHue(ret[2].h))
    /\ NearOnCircle(ret[3].h, OppositeHue(ret[4].h))
    /\ ret[1] = Hsv_split_complement(hsv)[1]
    /\ ret[3] = Hsv_split_complement(hsv)[2]
    /\ NearOnCircle(ret[1].h, Fmod(FAdd(hsv.h, Radians(FromInt(150))), TAU))
    /\ NearOnCircle(ret[3].h, Fmod(FAdd(hsv.h, Radians(FromInt(210))), TAU))

(***************************************************************************)
(* Random colors and the totality of to_rgb                                *)
(***************************************************************************)
\* C19: Rgb::rand gives the color (x1, x2, x3) of the three values x1, x2, x3
\* that the generator gives in turn, one value for each channel.
C19_RandPerChannel ==
  call.op = "Rgb::rand" =>
    ret[1] = RgbOf(call.args[1], call.args[2], call.args[3])

\* C20: for every Hsv the caller can hold (made by Hsv::new, from_hue, the
\* setters, Hsv::rand, Hsv::from_rgb or a derived-color function), to_rgb
\* finds a sector among 0..5, does not reach unreachable!(), and returns an
\* Rgb with r, g and b in [0, 1].
C20_ToRgbTotal ==
  call.op = "to_rgb" => (rgb # Unreachable /\ RgbInRange(rgb))

(***************************************************************************)
(* Hsv: triad, split complement, tint, shade and tone                      *)
(***************************************************************************)
\* The color c is the receiver with its hue moved on by deg degrees: the hue
\* is h + deg (mod 2 pi) to 1e-6 and in [0, 2 pi), and the saturation and the
\* brightness are the receiver's.
MovedOn(c, deg) ==
  /\ c.s = hsv.s /\ c.v = hsv.v
  /\ NearOnCircle(c.h, FAdd(hsv.h, Radians(FromInt(deg))))
  /\ FLe(Zero, c.h) /\ FLt(c.h, TAU)

\* C21: triad returns the receiver moved on by 120 and by 240 degrees,
\* split_complement the receiver moved on by 150 and by 210 degrees; the triad
\* of red (hue 0) has the hues 120 and 240 degrees (a fact of the constants,
\* evaluated once, where the caller starts).
C21_TriadSplit ==
  /\ (call.op = "triad" /\ ~IsNaN(hsv.h)) =>
        (Len(ret) = 2 /\ MovedOn(ret[1], 120) /\ MovedOn(ret[2], 240))
  /\ (call.op = "split_complement" /\ ~IsNaN(hsv.h)) =>
        (Len(ret) = 2 /\ MovedOn(ret[1], 150) /\ MovedOn(ret[2], 210))
  /\ call.op = "init" =>
        /\ Near(Hsv_triad(Hsv_from_hue(Zero))[1].h, Radians(FromInt(120)))
        /\ Near(Hsv_triad(Hsv_from_hue(Zero))[2].h, Radians(FromInt(240)))

\* The triad of a color past pi: the second hue went around the circle.
C21_Witness ==
  /\ call.op = "triad"
  /\ FLt(PI, hsv.h) /\ FLt(hsv.h, TAU) /\ hsv.s = Half
  /\ FLt(hsv.h, ret[1].h) /\ FLt(ret[2].h, hsv.h)

\* C22: with a = clamp(amt, 0, 1), tint gives the brightness min(1, v + a),
\* shade the brightness max(0, v - a) and tone the saturation max(0, s - a); the
\* other two components are the receiver's; tint never lowers the brightness,
\* shade never raises it, a negative amt changes nothing, and
\* Hsv::new(1, 0.5, 0.2).tint(1) is Hsv::new(1, 0.5, 1).
C22_TintShadeTone ==
  /\ call.op = "tint" =>
        /\ ret[1] = [hsv EXCEPT !.v = FMin(One, FAdd(hsv.v, Unit(call.args[1])))]
        /\ FLe(hsv.v, ret[1].v)
  /\ call.op = "shade" =>
        /\ ret[1] = [hsv EXCEPT !.v = FMax(Zero, FSub(hsv.v, Unit(call.args[1])))]
        /\ FLe(ret[1].v, hsv.v)
  /\ call.op = "tone" =>
        ret[1] = [hsv EXCEPT !.s = FMax(Zero, FSub(hsv.s, Unit(call.args[1])))]
  /\ (call.op \in {"tint", "shade", "tone"} /\ FLt(call.args[1], Zero)) =>
        ret[1] = hsv
  /\ call.op = "init" =>
        Hsv_tint(Hsv_new(One, Half, Dec(1, 5)), One) = Hsv_new(One, Half, One)

\* A tint by a quarter of a color of brightness 0.2.
C22_Witness ==
  /\ call.op = "tint" /\ call.args = <<Dec(1, 4)>>
  /\ hsv.v = Dec(1, 5)
  /\ ret[1].v = FAdd(Dec(1, 5), Dec(1, 4)) /\ ret[1].h = hsv.h


\* The sector of the color circle a hue h lies in, by the largest channel of c:
\* within 60 degrees of red, of green (120) or of blue (240).
InSectorOf(c, h) ==
  IF FEq(Max3(c), c.r)
    THEN FLe(h, Radians(FromInt(60))) \/ FLe(Radians(FromInt(300)), h)
  ELSE IF FEq(Max3(c), c.g)
    THEN FLe(Radians(FromInt(60)), h) /\ FLe(h, Radians(FromInt(180)))
  ELSE FLe(Radians(FromInt(180)), h) /\ FLe(h, Radians(FromInt(300)))

\* C23: Rgb::hue is 0 for an achromatic color (max approximately min) and
\* otherwise the hue of the sector of the largest channel, always in [0, 2*pi);
\* RED, GREEN and BLUE have hue 0, radians(120) and radians(240).  Rgb::saturation
\* is 0 for an achromatic color and 1 - min/max otherwise, with max above
\* EPSILON, so nothing is divided by zero.
C23_HueSaturation ==
  /\ call.op = "from_rgb::<Hsv>" =>
       /\ FLe(Zero, hsv.h) /\ FLt(hsv.h, TAU)
       /\ IF IsApproxEq(Max3(rgb), Min3(rgb))
            THEN hsv.h = Zero /\ hsv.s = Zero
            ELSE /\ InSectorOf(rgb, hsv.h)
                 /\ FLt(EPSILON, Max3(rgb))
                 /\ hsv.s = FSub(One, FDiv(Min3(rgb), Max3(rgb)))
                 /\ FLt(Zero, hsv.s) /\ FLe(hsv.s, One)
  /\ call.op = "init" =>
       /\ Rgb_hue(RED) = Zero
       /\ Rgb_hue(GREEN) = Radians(FromInt(120))
       /\ Rgb_hue(BLUE) = Radians(FromInt(240))

\* A chromatic color whose largest channel is blue and whose hue is past 240
\* degrees, with a saturation strictly between 0 and 1.
C23_Witness ==
  /\ call.op = "from_rgb::<Hsv>"
  /\ rgb = Rgb_from_u8(114, 1, 255)
  /\ FLt(Radians(FromInt(240)), hsv.h) /\ FLt(hsv.h, Radians(FromInt(300)))
  /\ FLt(Zero, hsv.s) /\ FLt(hsv.s, One)


\* The average of the channels as rand_offset takes it.
AverageOf(c) == FDiv(FAdd(FAdd(c.r, c.g), c.b), FromInt(3))

\* c scaled by one finite ratio and clamped: out is in range, every channel is
\* the clamped product, and a channel not above another stays not above it.
ScaledBy(c, ratio, out) ==
  /\ ~IsNaN(ratio) /\ ~IsInf(ratio)
  /\ out = RgbOf(Clamp(FMul(c.r, ratio), Zero, One),
                 Clamp(FMul(c.g, ratio), Zero, One),
                 Clamp(FMul(c.b, ratio), Zero, One))
  /\ FLe(c.r, c.g) => FLe(out.r, out.g)
  /\ FLe(c.g, c.b) => FLe(out.g, out.b)
  /\ FLe(c.b, c.r) => FLe(out.b, out.r)

\* C24: rand_offset(offset) clamps offset to os in [0, 1]; on a seed whose
\* average is approximately 0 it returns the gray (os, os, os) whatever the
\* draw, and nothing is divided; otherwise all three channels are multiplied by
\* the one ratio 1 + (2 * rnd * os - os) / avg and clamped.  The result is in
\* range, never NaN or infinite.
C24_RandOffset ==
  call.op = "rand_offset" =>
    /\ Len(ret) = 1 /\ RgbInRange(ret[1])
    /\ IF FLe(FAbs(AverageOf(rgb)), EPSILON)
         THEN ret[1] = RgbOf(Unit(call.args[1]), Unit(call.args[1]),
                             Unit(call.args[1]))
         ELSE ScaledBy(rgb,
                FAdd(One, FDiv(FSub(FMul(FMul(FromInt(2), call.args[2]),
                                         Unit(call.args[1])),
                                    Unit(call.args[1])),
                               AverageOf(rgb))),
                ret[1])

\* A seed of an average just above EPSILON, scaled by a ratio in the millions.
C24_Witness ==
  /\ call.op = "rand_offset"
  /\ rgb = Rgb_new(FMul(FromInt(3), EPSILON + 1), Zero, Zero)
  /\ FLt(EPSILON, AverageOf(rgb)) /\ FLt(AverageOf(rgb), FMul(FromInt(2), EPSILON))
  /\ call.args = <<One, One - 1>>
  /\ ret[1] = RgbOf(One, Zero, Zero)

\* The gray branch: a seed that is not black, of an average within EPSILON of 0.
C24_WitnessGray ==
  /\ call.op = "rand_offset"
  /\ rgb = Rgb_new(Zero, Zero, FMul(FromInt(3), EPSILON))
  /\ call.args = <<Dec(1, 4), Half>>
  /\ ret[1] = RgbOf(Dec(1, 4), Dec(1, 4), Dec(1, 4))


\* The step of each setter and with_ method: x is the receiver before, x2 the
\* receiver after, out the value returned by a with_ method.
RgbFrame(op, x, x2, out) ==
  /\ op = "set_red" => x2.g = x.g /\ x2.b = x.b
  /\ op = "set_green" => x2.r = x.r /\ x2.b = x.b
  /\ op = "set_blue" => x2.r = x.r /\ x2.g = x.g
  /\ op \in {"with_red", "with_green", "with_blue"} => x2 = x /\ Len(out) = 1
  /\ op = "with_red" => out[1].g = x.g /\ out[1].b = x.b
  /\ op = "with_green" => out[1].r = x.r /\ out[1].b = x.b
  /\ op = "with_blue" => out[1].r = x.r /\ out[1].g = x.g

HsvFrame(op, x, x2, out) ==
  /\ op = "set_hue" => x2.s = x.s /\ x2.v = x.v
  /\ op = "set_saturation" => x2.h = x.h /\ x2.v = x.v
  /\ op = "set_brightness" => x2.h = x.h /\ x2.s = x.s
  /\ op \in {"with_hue", "with_saturation", "with_brightness"} =>
       x2 = x /\ Len(out) = 1
  /\ op = "with_hue" => out[1].s = x.s /\ out[1].v = x.v
  /\ op = "with_saturation" => out[1].h = x.h /\ out[1].v = x.v
  /\ op = "with_brightness" => out[1].h = x.h /\ out[1].s = x.s

\* C25: set_red, set_green, set_blue on Rgb and set_hue, set_saturation,
\* set_brightness on Hsv leave the other two components of the receiver as
\* they were, for any argument; each with_ method returns a value that differs
\* from the receiver in that component at most and leaves the receiver, and
\* every other color the caller holds, unchanged.
C25_SetterFrame ==
  [][n' = n + 1 =>
       /\ RgbFrame(call'.op, rgb, rgb', ret')
       /\ HsvFrame(call'.op, hsv, hsv', ret')
       /\ call'.op \in {"set_red", "set_green", "set_blue", "with_red",
                         "with_green", "with_blue"} => hsv' = hsv
       /\ call'.op \in {"set_hue", "set_saturation", "set_brightness",
                         "with_hue", "with_saturation", "with_brightness"} =>
            rgb' = rgb]_vars

\* set_red(1000.) on BROWN has made the red 1 and kept BROWN's green and blue.
C25_Witness ==
  /\ call.op = "set_red" /\ call.args = <<FromInt(1000)>>
  /\ rgb = RgbOf(One, BROWN.g, BROWN.b)
  /\ BROWN.r # One /\ BROWN.g # Zero


\* x * k for the receiver x and the factor of the call: the same color as
\* x * (-k), every channel min(1, c * |k|).
ScaledByAbs(x, k, out) ==
  /\ out = Rgb_mul_f32(x, FNeg(k))
  /\ out = RgbOf(FMin(One, FMul(x.r, FAbs(k))), FMin(One, FMul(x.g, FAbs(k))),
                 FMin(One, FMul(x.b, FAbs(k))))

LinearBreak == Dec(31308, 10000000)
EncodedBreak == Dec(4045, 100000)

\* A channel f of the linear segment, its encoding e and the decoding d of e:
\* e is 12.92 * f and not above the break of to_rgb, and d is e / 12.92.
LinearSegment(f, e) ==
  FLe(f, LinearBreak) =>
    e = FMul(f, Dec(1292, 100)) /\ FLe(e, EncodedBreak)

DecodedLinearly(f, e, d) ==
  FLe(f, LinearBreak) => d = FDiv(e, Dec(1292, 100))

\* C27: for every channel f of [0, 0.0031308], Srgb::from_rgb gives 12.92 * f,
\* which is not above 0.04045, so Srgb::to_rgb divides it by 12.92, never
\* taking the power branch, and the round trip gives f exactly.
C27_LinearRoundTrip ==
  /\ FLe(FMul(LinearBreak, Dec(1292, 100)), EncodedBreak)
  /\ call.op \in {"from_rgb::<Srgb>", "Srgb::to_rgb"} =>
       /\ LinearSegment(rgb.r, srgb.r)
       /\ LinearSegment(rgb.g, srgb.g)
       /\ LinearSegment(rgb.b, srgb.b)
  /\ call.op = "Srgb::to_rgb" =>
       /\ DecodedLinearly(rgb.r, srgb.r, ret[1].r)
       /\ DecodedLinearly(rgb.g, srgb.g, ret[1].g)
       /\ DecodedLinearly(rgb.b, srgb.b, ret[1].b)
       /\ FLe(rgb.r, LinearBreak) => ret[1].r = rgb.r
       /\ FLe(rgb.g, LinearBreak) => ret[1].g = rgb.g
       /\ FLe(rgb.b, LinearBreak) => ret[1].b = rgb.b

\* d is f or one of the two f32 next to f.
WithinOneUlp(d, f) == ~IsNaN(d) /\ ~IsNaN(f) /\ d - f \in {-1, 0, 1}

\* C27, amended: for every channel f of [0, 0.0031308], Srgb::from_rgb gives
\* 12.92 * f, which is not above 0.04045, so Srgb::to_rgb divides it by 12.92,
\* never taking the power branch, and the round trip gives f or an f32 next
\* to f.
C27_LinearRoundTripOneUlp ==
  /\ FLe(FMul(LinearBreak, Dec(1292, 100)), EncodedBreak)
  /\ call.op \in {"from_rgb::<Srgb>", "Srgb::to_rgb"} =>
       /\ LinearSegment(rgb.r, srgb.r)
       /\ LinearSegment(rgb.g, srgb.g)
       /\ LinearSegment(rgb.b, srgb.b)
  /\ call.op = "Srgb::to_rgb" =>
       /\ DecodedLinearly(rgb.r, srgb.r, ret[1].r)
       /\ DecodedLinearly(rgb.g, srgb.g, ret[1].g)
       /\ DecodedLinearly(rgb.b, srgb.b, ret[1].b)
       /\ FLe(rgb.r, LinearBreak) => WithinOneUlp(ret[1].r, rgb.r)
       /\ FLe(rgb.g, LinearBreak) => WithinOneUlp(ret[1].g, rgb.g)
       /\ FLe(rgb.b, LinearBreak) => WithinOneUlp(ret[1].b, rgb.b)

\* The gray 0.003 was encoded by the linear branch, decoded by the division,
\* and came back as the f32 just below 0.003.
C27_Witness ==
  /\ call.op = "Srgb::to_rgb"
  /\ rgb.r = Dec(3, 1000) /\ FLt(Zero, rgb.r) /\ FLt(rgb.r, LinearBreak)
  /\ srgb.r = FMul(rgb.r, Dec(1292, 100))
  /\ ret[1].r = rgb.r - 1

=============================================================================
